---- MODULE Spec2Model ----
(***************************************************************************)
(* Model of src/lib/Transfer.ts: sendTransactionAdvanced, its parameter    *)
(* gate validateTransaction and the decoy resolver getRingParticipants.    *)
(*                                                                         *)
(* One call of sendTransactionAdvanced is an async function with two       *)
(* suspension points (await daemon.getRandomOutputsByAmount, await         *)
(* daemon.sendTransaction), so it is three actions: the call up to its     *)
(* first await or return, and one action per settled await; a fourth       *)
(* action hands the settled outcome to the caller, who may call again.     *)
(* The daemon, the wallet state, the validators of ValidateParameters and  *)
(* CryptoUtils are collaborators outside the file: what they return is     *)
(* chosen nondeterministically from small sets.                            *)
(***************************************************************************)
EXTENDS Integers, Sequences, FiniteSets

VARIABLES
    pc,                  \* position of the call: "idle", "awaitDecoys", "awaitRelay", "done"
    addressesAndAmounts, \* the caller's destination array (mutated by the call)
    stages,              \* what each of the seven validators returns for this call
    validation,          \* the return of validateTransaction and the stages it evaluated
    mixin,               \* the mixin parameter
    amounts,             \* inputs.map(input => input.input.amount)
    fetch,               \* how daemon.getRandomOutputsByAmount settled: "none", "resolved", "threw"
    outs,                \* what daemon.getRandomOutputsByAmount resolved to
    ring,                \* the return of getRingParticipants
    txArgs,              \* the arguments handed to CryptoUtils.createTransaction
    tx,                  \* the outcome of CryptoUtils.createTransaction
    relay,               \* how daemon.sendTransaction settled
    result,              \* what the call returned
    log,                 \* the collaborator calls of this call, in order
    original,            \* the caller's destination array as the caller built it
    requested,           \* the caller's destination array as this call received it
    nodeFee,             \* daemon.nodeFee() of this call
    fee,                 \* fee, after its default
    paymentID,           \* the paymentID argument, after its default
    totalAmount,         \* totalAmount
    foundMoney,          \* foundMoney of subWallets.getTransactionInputsForAmount
    request              \* the arguments of daemon.getRandomOutputsByAmount

vars == <<pc, addressesAndAmounts, stages, validation, mixin, amounts, fetch,
          outs, ring, txArgs, tx, relay, result, log, original, requested,
          nodeFee, fee, paymentID, totalAmount, foundMoney, request>>

(***************************************************************************)
(* Bounds of the model.                                                    *)
(***************************************************************************)
MaxMixin == 3
MaxInputs == 3
MaxBuckets == 2
MaxOutputs == 3
MaxDestinations == 3

\* The amounts of the owned inputs and of the decoy buckets.
AmountValues == {100, 250}

(***************************************************************************)
(* WalletError values.  The message of an error is kept as the values the  *)
(* template string interpolates.                                           *)
(***************************************************************************)
NoMessage == [text |-> "", amount |-> 0, needed |-> 0, found |-> 0]

WalletError(code, message) == [code |-> code, message |-> message]

SUCCESS == WalletError("SUCCESS", NoMessage)

deepEqual(a, b) == a = b

(***************************************************************************)
(* validateTransaction.  v[i] is what the i-th validator returns on the    *)
(* arguments of this call: 1 validateDestinations, 2                       *)
(* validateIntegratedAddresses, 3 validateOurAddresses(subWalletsToTake-   *)
(* From), 4 validateAmount, 5 validateMixin, 6 validatePaymentID, 7        *)
(* validateOurAddresses([changeAddress]).  "evaluated" lists the           *)
(* validators that were called, in call order.                             *)
(***************************************************************************)
StageErrors == <<
    WalletError("InvalidDestination", NoMessage),
    WalletError("PaymentIdConflict", NoMessage),
    WalletError("UnknownOwnAddress", NoMessage),
    WalletError("InsufficientFunds", NoMessage),
    WalletError("InvalidMixin", NoMessage),
    WalletError("InvalidPaymentIdFormat", NoMessage),
    WalletError("UnknownOwnAddress", NoMessage) >>

NumStages == Len(StageErrors)

\* Every combination: the validators of failing are the ones that return an error.
StageResults == {[i \in 1..NumStages |-> IF i \in failing THEN StageErrors[i] ELSE SUCCESS] :
                    failing \in SUBSET (1..NumStages)}

Validated(error, evaluated) == [error |-> error, evaluated |-> evaluated]

NotValidated == Validated(SUCCESS, <<>>)

\* Faulty variant: validateMixin is consulted before validateAmount.
validateTransactionMixinFirst(v) ==
    IF ~deepEqual(v[1], SUCCESS) THEN Validated(v[1], <<1>>)
    ELSE IF ~deepEqual(v[2], SUCCESS) THEN Validated(v[2], <<1, 2>>)
    ELSE IF ~deepEqual(v[3], SUCCESS) THEN Validated(v[3], <<1, 2, 3>>)
    ELSE IF ~deepEqual(v[5], SUCCESS) THEN Validated(v[5], <<1, 2, 3, 5>>)
    ELSE IF ~deepEqual(v[4], SUCCESS) THEN Validated(v[4], <<1, 2, 3, 5, 4>>)
    ELSE IF ~deepEqual(v[6], SUCCESS) THEN Validated(v[6], <<1, 2, 3, 5, 4, 6>>)
    ELSE IF ~deepEqual(v[7], SUCCESS) THEN Validated(v[7], <<1, 2, 3, 5, 4, 6, 7>>)
    ELSE Validated(SUCCESS, <<1, 2, 3, 5, 4, 6, 7>>)

validateTransaction(v) ==
    IF ~deepEqual(v[1], SUCCESS) THEN Validated(v[1], <<1>>)
    ELSE IF ~deepEqual(v[2], SUCCESS) THEN Validated(v[2], <<1, 2>>)
    ELSE IF ~deepEqual(v[3], SUCCESS) THEN Validated(v[3], <<1, 2, 3>>)
    ELSE IF ~deepEqual(v[4], SUCCESS) THEN Validated(v[4], <<1, 2, 3, 4>>)
    ELSE IF ~deepEqual(v[5], SUCCESS) THEN Validated(v[5], <<1, 2, 3, 4, 5>>)
    ELSE IF ~deepEqual(v[6], SUCCESS) THEN Validated(v[6], <<1, 2, 3, 4, 5, 6>>)
    ELSE IF ~deepEqual(v[7], SUCCESS) THEN Validated(v[7], <<1, 2, 3, 4, 5, 6, 7>>)
    ELSE Validated(SUCCESS, <<1, 2, 3, 4, 5, 6, 7>>)

(***************************************************************************)
(* The daemon's decoy response: a sequence of buckets <<amount, outputs>>, *)
(* outputs a sequence of <<globalIndex, key>>.  The j-th output of a       *)
(* bucket of amount a has global index j and a key that is unique to it.   *)
(***************************************************************************)
Outputs(a, n) == [j \in 1..n |-> <<j, 1000 * a + j>>]

Buckets == {<<a, Outputs(a, n)>> : a \in AmountValues, n \in 0..MaxOutputs}

Responses == UNION {[1..k -> Buckets] : k \in 0..MaxBuckets}

InputAmounts == UNION {[1..k -> AmountValues] : k \in 1..MaxInputs}

(***************************************************************************)
(* getRingParticipants.                                                    *)
(***************************************************************************)
Returned(randomOuts) == [kind |-> "value", error |-> SUCCESS, randomOuts |-> randomOuts]

Failed(error) == [kind |-> "error", error |-> error, randomOuts |-> <<>>]

NoRing == [kind |-> "none", error |-> SUCCESS, randomOuts |-> <<>>]

Undefined == <<>>

\* _.find(outs, ([outAmount, ignore]) => amount === outAmount)
find(resp, amount) ==
    IF \E k \in 1..Len(resp) : resp[k][1] = amount
    THEN resp[CHOOSE k \in 1..Len(resp) :
                  /\ resp[k][1] = amount
                  /\ \A j \in 1..(k - 1) : resp[j][1] # amount]
    ELSE Undefined

requestedOuts(mix) == mix + 1

NotEnoughMessage(amount, mix, found) ==
    [text |-> "Failed to get enough matching outputs", amount |-> amount,
     needed |-> requestedOuts(mix), found |-> found]

\* Faulty variant: the loop over amounts is left out.
checkAmountsSkipped(amts, mix, resp, i) == SUCCESS

\* The loop over amounts: SUCCESS when it ends without returning.
RECURSIVE checkAmounts(_, _, _, _)
checkAmounts(amts, mix, resp, i) ==
    IF i > Len(amts) THEN SUCCESS
    ELSE LET amount == amts[i]
             foundOutputs == find(resp, amount)
         IN  IF foundOutputs = Undefined
             THEN WalletError("NOT_ENOUGH_FAKE_OUTPUTS",
                      [text |-> "Failed to get any matching outputs", amount |-> amount,
                       needed |-> 0, found |-> 0])
             ELSE IF Len(foundOutputs) < mix
             THEN WalletError("NOT_ENOUGH_FAKE_OUTPUTS",
                      NotEnoughMessage(amount, mix, Len(foundOutputs)))
             ELSE checkAmounts(amts, mix, resp, i + 1)

\* outputs.map(([index, key]) => ({globalIndex: index, key: key}))
mapOutputs(outputs) ==
    [j \in 1..Len(outputs) |-> [globalIndex |-> outputs[j][1], key |-> outputs[j][2]]]

\* Faulty variant: the loop over outs does not look at the bucket's length.
RECURSIVE shapeOutsUnchecked(_, _, _, _)
shapeOutsUnchecked(resp, mix, i, randomOuts) ==
    IF i > Len(resp) THEN Returned(randomOuts)
    ELSE shapeOutsUnchecked(resp, mix, i + 1, Append(randomOuts, mapOutputs(resp[i][2])))

\* The loop over outs that fills randomOuts.
RECURSIVE shapeOuts(_, _, _, _)
shapeOuts(resp, mix, i, randomOuts) ==
    IF i > Len(resp) THEN Returned(randomOuts)
    ELSE LET amount == resp[i][1]
             outputs == resp[i][2]
         IN  IF Len(outputs) < mix
             THEN Failed(WalletError("NOT_ENOUGH_FAKE_OUTPUTS",
                             NotEnoughMessage(amount, mix, Len(outputs))))
             ELSE shapeOuts(resp, mix, i + 1, Append(randomOuts, mapOutputs(outputs)))

\* Faulty variant: a mixin of 0 yields one empty list per input.
getRingParticipantsPerInput(amts, mix, resp) ==
    IF mix = 0 THEN Returned([i \in 1..Len(amts) |-> <<>>])
    ELSE IF Len(resp) = 0 THEN Failed(WalletError("DAEMON_OFFLINE", NoMessage))
    ELSE LET error == checkAmounts(amts, mix, resp, 1)
         IN  IF error # SUCCESS THEN Failed(error)
             ELSE IF Len(resp) # Len(amts)
             THEN Failed(WalletError("NOT_ENOUGH_FAKE_OUTPUTS", NoMessage))
             ELSE shapeOuts(resp, mix, 1, <<>>)

\* Faulty variant: the bucket count is compared with the number of distinct amounts.
getRingParticipantsDistinct(amts, mix, resp) ==
    IF mix = 0 THEN Returned(<<>>)
    ELSE IF Len(resp) = 0 THEN Failed(WalletError("DAEMON_OFFLINE", NoMessage))
    ELSE LET error == checkAmounts(amts, mix, resp, 1)
         IN  IF error # SUCCESS THEN Failed(error)
             ELSE IF Len(resp) # Cardinality({amts[i] : i \in 1..Len(amts)})
             THEN Failed(WalletError("NOT_ENOUGH_FAKE_OUTPUTS", NoMessage))
             ELSE shapeOuts(resp, mix, 1, <<>>)

\* resp is what the awaited daemon.getRandomOutputsByAmount(amounts, mixin)
\* resolved to; it is not read when mixin is 0, where no request is made.
getRingParticipants(amts, mix, resp) ==
    IF mix = 0 THEN Returned(<<>>)
    ELSE IF Len(resp) = 0 THEN Failed(WalletError("DAEMON_OFFLINE", NoMessage))
    ELSE LET error == checkAmounts(amts, mix, resp, 1)
         IN  IF error # SUCCESS THEN Failed(error)
             ELSE IF Len(resp) # Len(amts)
             THEN Failed(WalletError("NOT_ENOUGH_FAKE_OUTPUTS", NoMessage))
             ELSE shapeOuts(resp, mix, 1, <<>>)

(***************************************************************************)
(* The collaborators' answers.                                             *)
(***************************************************************************)
\* The destination arrays a caller passes; the two integrated addresses of the
\* third embed different payment IDs.
Requests == {<< <<"addressA", 1>> >>, << <<"addressA", 1>>, <<"addressB", 2>> >>,
             << <<"integrated1", 1>>, <<"integrated2", 1>> >>}

\* More destination arrays: an amount above what one input of 100 covers, an
\* integrated address before and after a plain one.
MoreRequests == Requests \cup
    {<< <<"addressA", 150>> >>,
     << <<"integrated1", 1>>, <<"addressA", 2>> >>,
     << <<"addressA", 2>>, <<"integrated1", 1>> >>}

\* An optional argument is <<>> when the caller leaves it out.
NotGiven == {<<>>}

PaymentIDs == {<<>>, <<"p1">>, <<"p2">>}

Fees == {<<>>, <<20>>}

\* config.minimumFee
minimumFee == 10

\* if (fee === undefined) fee = config.minimumFee
feeOrDefault(f) == IF f = <<>> THEN minimumFee ELSE f[1]

\* if (paymentID === undefined) paymentID = ''
paymentIDOrDefault(p) == IF p = <<>> THEN "" ELSE p[1]

\* CryptoUtils.decodeAddress: an integrated address carries a payment ID.
decodeAddress(address) ==
    [address |-> address,
     paymentId |-> IF address = "integrated1" THEN "p1"
                   ELSE IF address = "integrated2" THEN "p2"
                   ELSE ""]

\* The payment IDs embedded in the destinations.
embeddedPaymentIDs(destinations) ==
    {decodeAddress(destinations[i][1]).paymentId : i \in 1..Len(destinations)} \ {""}

\* validateIntegratedAddresses: destinations that embed different payment IDs,
\* or an embedded ID that differs from a non-empty explicit one, are a conflict.
validateIntegratedAddresses(destinations, pid) ==
    IF \/ Cardinality(embeddedPaymentIDs(destinations)) > 1
       \/ pid # "" /\ \E e \in embeddedPaymentIDs(destinations) : e # pid
    THEN StageErrors[2]
    ELSE SUCCESS

\* _.sumBy(addressesAndAmounts, ([address, amount]) => amount)
RECURSIVE sumBy(_)
sumBy(destinations) ==
    IF destinations = <<>> THEN 0
    ELSE destinations[1][2] + sumBy(Tail(destinations))

\* Faulty variant: the fee is left out of the total.
totalAmountWithoutFee(destinations, f) == sumBy(destinations)

\* const totalAmount = _.sumBy(...) + fee
totalAmountOf(destinations, f) == sumBy(destinations) + f

\* addressesAndAmounts.map(...): the transfers
transfersOf(destinations) ==
    [i \in 1..Len(destinations) |->
        [amount |-> destinations[i][2], keys |-> decodeAddress(destinations[i][1])]]

\* Faulty variant: the payment ID of an integrated address is not taken over.
paymentIDExplicitOnly(destinations, pid, i) == pid

\* paymentID after the map over the destinations from the i-th on: every
\* destination with an embedded payment ID assigns it.
RECURSIVE paymentIDAfterMap(_, _, _)
paymentIDAfterMap(destinations, pid, i) ==
    IF i > Len(destinations) THEN pid
    ELSE LET decoded == decodeAddress(destinations[i][1])
         IN  paymentIDAfterMap(destinations,
                               IF decoded.paymentId # "" THEN decoded.paymentId ELSE pid,
                               i + 1)

\* foundMoney: the amount the selected inputs cover.
RECURSIVE sumOfInputs(_)
sumOfInputs(amts) == IF amts = <<>> THEN 0 ELSE amts[1] + sumOfInputs(Tail(amts))

\* The arguments of createTransaction that come from the request.
Draft(destinations, f, pid) ==
    [transfers |-> transfersOf(destinations), fee |-> f,
     paymentID |-> paymentIDAfterMap(destinations, pid, 1)]

NoRequest == [called |-> FALSE, amounts |-> <<>>, count |-> 0]

\* Faulty variant: one more decoy than mixin is asked for.
decoyRequestOneMore(amts, mix) ==
    [called |-> TRUE, amounts |-> amts, count |-> requestedOuts(mix)]

\* daemon.getRandomOutputsByAmount(amounts, mixin)
decoyRequest(amts, mix) == [called |-> TRUE, amounts |-> amts, count |-> mix]

\* A response with one bucket of mix entries per requested amount, or none.
FaithfulResponses(amts, mix) ==
    {<<>>, [i \in 1..Len(amts) |-> <<amts[i], Outputs(amts[i], mix)>>]}

\* daemon.nodeFee(): [feeAddress, feeAmount]
NodeFees == {<<"", 0>>, <<"feeAddress", 1>>}

\* CryptoUtils.createTransaction returns a transaction or throws.
Created(hash, rawTransaction) ==
    [threw |-> FALSE, hash |-> hash, rawTransaction |-> rawTransaction, err |-> ""]

Threw(err) == [threw |-> TRUE, hash |-> "", rawTransaction |-> "", err |-> err]

NoTx == [threw |-> FALSE, hash |-> "", rawTransaction |-> "", err |-> ""]

BuildOutcomes == {Created("hash1", "raw1"), Created("hash2", "raw2"),
                  Threw("Error: createTransaction")}

\* daemon.sendTransaction resolves true or false, or throws (timeout).
RelayOutcomes == {"true", "false", "throw"}

NoArgs == [called |-> FALSE, transfers |-> <<>>, randomOuts |-> <<>>, mixin |-> 0,
           fee |-> 0, paymentID |-> ""]

(***************************************************************************)
(* What the call hands back to its caller: a hash, a WalletError, or a     *)
(* rejected promise when an exception leaves the function.                 *)
(***************************************************************************)
NoResult == [kind |-> "none", hash |-> "", error |-> SUCCESS]

ReturnHash(hash) == [kind |-> "hash", hash |-> hash, error |-> SUCCESS]

ReturnError(error) == [kind |-> "error", hash |-> "", error |-> error]

Rejected == [kind |-> "rejected", hash |-> "", error |-> SUCCESS]

\* Faulty variant: the result of validateTransaction is not acted on.
ValidationFailedIgnored(error) == FALSE

\* if (!deepEqual(error, SUCCESS)) return error;
ValidationFailed(error) == ~deepEqual(error, SUCCESS)

\* Faulty variant: relaySuccess is not tested.
relayResultUntested(created, outcome) ==
    IF outcome = "throw" THEN ReturnError(WalletError("DAEMON_OFFLINE", NoMessage))
    ELSE ReturnHash(created.hash)

\* Faulty variant: an exception of the relay is swallowed and the hash returned.
relayResultSwallowed(created, outcome) ==
    IF outcome = "false" THEN ReturnError(WalletError("DAEMON_ERROR", NoMessage))
    ELSE ReturnHash(created.hash)

\* try { relaySuccess = await daemon.sendTransaction(...) ... } catch ...
relayResult(created, outcome) ==
    IF outcome = "throw" THEN ReturnError(WalletError("DAEMON_OFFLINE", NoMessage))
    ELSE IF outcome = "true" THEN ReturnHash(created.hash)
    ELSE ReturnError(WalletError("DAEMON_ERROR", NoMessage))

\* Faulty variant: the message of the caught exception is dropped.
buildErrorNoMessage(err) == WalletError("UNKNOWN_ERROR", NoMessage)

\* catch (err) { return new WalletError(UNKNOWN_ERROR, err.toString()) }
buildError(err) ==
    WalletError("UNKNOWN_ERROR", [text |-> err, amount |-> 0, needed |-> 0, found |-> 0])

Init ==
    /\ pc = "idle"
    /\ addressesAndAmounts = <<>>
    /\ original = <<>>
    /\ stages = [i \in 1..NumStages |-> SUCCESS]
    /\ validation = NotValidated
    /\ mixin = 0
    /\ amounts = <<>>
    /\ fetch = "none"
    /\ outs = <<>>
    /\ ring = NoRing
    /\ txArgs = NoArgs
    /\ tx = NoTx
    /\ relay = "none"
    /\ result = NoResult
    /\ log = <<>>
    /\ requested = <<>>
    /\ nodeFee = <<"", 0>>
    /\ fee = 0
    /\ paymentID = ""
    /\ totalAmount = 0
    /\ foundMoney = 0
    /\ request = NoRequest

(***************************************************************************)
(* The rest of sendTransactionAdvanced once getRingParticipants has        *)
(* returned randomOuts: the instanceof check, createTransaction, and the   *)
(* call of daemon.sendTransaction, up to its await.                        *)
(***************************************************************************)
Assemble(randomOuts, mix, events, draft) ==
    /\ ring' = randomOuts
    /\ relay' = "none"
    /\ IF randomOuts.kind = "error"
       THEN /\ txArgs' = NoArgs
            /\ tx' = NoTx
            /\ result' = ReturnError(randomOuts.error)
            /\ log' = events
            /\ pc' = "done"
       ELSE \E built \in BuildOutcomes :
            /\ txArgs' = [called |-> TRUE, transfers |-> draft.transfers,
                          randomOuts |-> randomOuts.randomOuts, mixin |-> mix,
                          fee |-> draft.fee, paymentID |-> draft.paymentID]
            /\ tx' = built
            /\ IF built.threw
               THEN /\ result' = ReturnError(buildError(built.err))
                    /\ log' = Append(events, "createTransaction")
                    /\ pc' = "done"
               ELSE /\ result' = NoResult
                    /\ log' = events \o <<"createTransaction", "sendTransaction">>
                    /\ pc' = "awaitRelay"

(***************************************************************************)
(* A call of sendTransactionAdvanced, up to its first await or its return. *)
(* The caller passes a fresh destination array, one of requests, or the    *)
(* array of its last call again; paymentID and fee are optional arguments. *)
(***************************************************************************)
Call(requests, paymentIDs, fees) ==
    /\ pc = "idle"
    /\ \E list \in requests \cup (IF addressesAndAmounts # <<>> THEN {addressesAndAmounts} ELSE {}),
          pidArg \in paymentIDs, feeArg \in fees,
          fromDaemon \in NodeFees, v \in StageResults, mix \in 0..MaxMixin :
          LET feeAmount == fromDaemon[2]
              pushed == IF feeAmount # 0 THEN Append(list, fromDaemon) ELSE list
              f == feeOrDefault(feeArg)
              pid == paymentIDOrDefault(pidArg)
              error == validateTransaction(v)
              selection == <<"validateTransaction", "getTransactionInputsForAmount",
                             "generateKeyImage">>
          IN  /\ Len(list) < MaxDestinations
              /\ v[2] = validateIntegratedAddresses(pushed, pid)
              /\ original' = IF list = addressesAndAmounts THEN original ELSE list
              /\ requested' = list
              /\ nodeFee' = fromDaemon
              /\ fee' = f
              /\ paymentID' = pid
              /\ addressesAndAmounts' = pushed
              /\ stages' = v
              /\ validation' = error
              /\ mixin' = mix
              /\ fetch' = "none"
              /\ outs' = <<>>
              /\ IF ValidationFailed(error.error)
                 THEN /\ amounts' = <<>>
                      /\ totalAmount' = 0
                      /\ foundMoney' = 0
                      /\ request' = NoRequest
                      /\ ring' = NoRing
                      /\ txArgs' = NoArgs
                      /\ tx' = NoTx
                      /\ relay' = "none"
                      /\ result' = ReturnError(error.error)
                      /\ log' = <<"validateTransaction">>
                      /\ pc' = "done"
                 ELSE \E selected \in InputAmounts :
                      /\ amounts' = selected
                      /\ totalAmount' = totalAmountOf(pushed, f)
                      /\ foundMoney' = sumOfInputs(selected)
                      /\ IF mix = 0
                         THEN /\ request' = NoRequest
                              /\ Assemble(getRingParticipants(selected, mix, <<>>), mix,
                                          selection, Draft(pushed, f, pid))
                         ELSE /\ request' = decoyRequest(selected, mix)
                              /\ ring' = NoRing
                              /\ txArgs' = NoArgs
                              /\ tx' = NoTx
                              /\ relay' = "none"
                              /\ result' = NoResult
                              /\ log' = Append(selection, "getRandomOutputsByAmount")
                              /\ pc' = "awaitDecoys"

\* A call with the optional arguments left out.
sendTransactionAdvanced == Call(Requests, NotGiven, NotGiven)

\* A call with any destinations, explicit or default payment ID and fee.
sendTransactionAdvancedWithOptions == Call(MoreRequests, PaymentIDs, Fees)

(***************************************************************************)
(* daemon.getRandomOutputsByAmount settles with one of responses or        *)
(* throws: getRingParticipants resumes, and sendTransactionAdvanced after  *)
(* it, up to the next await or return.  Nothing catches an exception of    *)
(* the request.                                                            *)
(***************************************************************************)
Settles(responses) ==
    /\ pc = "awaitDecoys"
    /\ UNCHANGED <<addressesAndAmounts, stages, validation, mixin, amounts, original,
                   requested, nodeFee, fee, paymentID, totalAmount, foundMoney,
                   request>>
    /\ \/ /\ fetch' = "threw"
          /\ outs' = <<>>
          /\ ring' = NoRing
          /\ txArgs' = NoArgs
          /\ tx' = NoTx
          /\ relay' = "none"
          /\ result' = Rejected
          /\ log' = log
          /\ pc' = "done"
       \/ \E resp \in responses :
          /\ fetch' = "resolved"
          /\ outs' = resp
          /\ Assemble(getRingParticipants(amounts, mixin, resp), mixin, log,
                      Draft(addressesAndAmounts, fee, paymentID))

\* Any response of the daemon.
getRandomOutputsByAmountSettles == Settles(Responses)

\* A daemon that answers with what was asked for, or with nothing.
getRandomOutputsByAmountAnswers == Settles(FaithfulResponses(amounts, mixin))

(***************************************************************************)
(* daemon.sendTransaction settles.                                         *)
(***************************************************************************)
sendTransactionSettles ==
    /\ pc = "awaitRelay"
    /\ \E outcome \in RelayOutcomes :
          /\ relay' = outcome
          /\ result' = relayResult(tx, outcome)
    /\ pc' = "done"
    /\ UNCHANGED <<addressesAndAmounts, stages, validation, mixin, amounts, fetch,
                   outs, ring, txArgs, tx, log, original, requested, nodeFee, fee,
                   paymentID, totalAmount, foundMoney, request>>

(***************************************************************************)
(* The promise of the call has settled: the caller has the outcome, the    *)
(* locals of the call are gone, the caller's array stays as the call left  *)
(* it.                                                                     *)
(***************************************************************************)
callReturns ==
    /\ pc = "done"
    /\ pc' = "idle"
    /\ stages' = [i \in 1..NumStages |-> SUCCESS]
    /\ validation' = NotValidated
    /\ mixin' = 0
    /\ amounts' = <<>>
    /\ fetch' = "none"
    /\ outs' = <<>>
    /\ ring' = NoRing
    /\ txArgs' = NoArgs
    /\ tx' = NoTx
    /\ relay' = "none"
    /\ result' = NoResult
    /\ log' = <<>>
    /\ requested' = <<>>
    /\ nodeFee' = <<"", 0>>
    /\ fee' = 0
    /\ paymentID' = ""
    /\ totalAmount' = 0
    /\ foundMoney' = 0
    /\ request' = NoRequest
    /\ UNCHANGED <<addressesAndAmounts, original>>

Next ==
    \/ sendTransactionAdvanced
    \/ callReturns
    \/ getRandomOutputsByAmountSettles
    \/ sendTransactionSettles

Spec == Init /\ [][Next]_vars

(***************************************************************************)
(* The same call with the whole range of requests and optional arguments,  *)
(* against a daemon that answers a decoy request faithfully or not at all. *)
(***************************************************************************)
NextWithOptions ==
    \/ sendTransactionAdvancedWithOptions
    \/ callReturns
    \/ getRandomOutputsByAmountAnswers
    \/ sendTransactionSettles

SpecWithOptions == Init /\ [][NextWithOptions]_vars

(***************************************************************************)
(* Vocabulary of the properties.                                           *)
(***************************************************************************)
NetworkOperations == {"getRandomOutputsByAmount", "sendTransaction"}

Logged(event) == \E i \in 1..Len(log) : log[i] = event

ValidationRan == validation.evaluated # <<>>

\* getRingParticipants has examined a decoy response for a mixin of at least 1.
Resolved == fetch = "resolved" /\ mixin >= 1

DistinctAmounts == {amounts[i] : i \in 1..Len(amounts)}

\* The response holds a bucket for the amount of every input.
AllPresent == \A i \in 1..Len(amounts) : \E k \in 1..Len(outs) : outs[k][1] = amounts[i]

\* The decoy entries of the first bucket of the response for amount a.
BucketOf(a) == find(outs, a)[2]

\* Input i is an input whose bucket holds fewer than mixin entries.
Insufficient(i) == Len(BucketOf(amounts[i])) < mixin

GenericFailure == ring = Failed(WalletError("NOT_ENOUGH_FAKE_OUTPUTS", NoMessage))

\* Exactly one bucket per distinct input amount, each with at least mixin entries.
OneSufficientBucketPerDistinctAmount ==
    /\ Len(outs) = Cardinality(DistinctAmounts)
    /\ {outs[k][1] : k \in 1..Len(outs)} = DistinctAmounts
    /\ \A k \in 1..Len(outs) : Len(outs[k][2]) >= mixin

(***************************************************************************)
(* C1: no network operation (decoy fetch, relay) is invoked before         *)
(* validateTransaction has returned SUCCESS; when validateTransaction      *)
(* returns an error the call returns that error and neither network        *)
(* operation is invoked in that call.                                      *)
(***************************************************************************)
C1_NoNetworkBeforeValidation ==
    /\ \A i \in 1..Len(log) :
          log[i] \in NetworkOperations =>
              /\ validation.error = SUCCESS
              /\ \E j \in 1..(i - 1) : log[j] = "validateTransaction"
    /\ (ValidationRan /\ validation.error # SUCCESS) =>
          /\ pc = "done"
          /\ result = ReturnError(validation.error)
          /\ \A i \in 1..Len(log) : log[i] \notin NetworkOperations
          /\ fetch = "none"
          /\ relay = "none"

\* A call that passed validation and went through both network operations.
C1_Witness ==
    /\ pc = "done"
    /\ Logged("getRandomOutputsByAmount")
    /\ Logged("sendTransaction")
    /\ relay = "true"

(***************************************************************************)
(* C2: validateTransaction evaluates its seven stages in the fixed order   *)
(* 1..7, returns the error of the earliest failing stage, evaluates no     *)
(* stage after a failure, and returns SUCCESS exactly when all seven       *)
(* stages succeed.                                                         *)
(***************************************************************************)
C2_ValidationOrder ==
    ValidationRan =>
        LET failing == {i \in 1..NumStages : stages[i] # SUCCESS}
        IN  /\ failing = {} =>
                  /\ validation.error = SUCCESS
                  /\ validation.evaluated = [i \in 1..NumStages |-> i]
            /\ failing # {} =>
                  LET first == CHOOSE i \in failing : \A j \in failing : i <= j
                  IN  /\ validation.error = stages[first]
                      /\ validation.evaluated = [i \in 1..first |-> i]
            /\ (validation.error = SUCCESS) <=> (failing = {})

\* Stages 4 and 6 both fail: the error of stage 4 is returned, stage 5 never runs.
C2_Witness ==
    /\ ValidationRan
    /\ \A i \in 1..3 : stages[i] = SUCCESS
    /\ stages[4] # SUCCESS
    /\ stages[6] # SUCCESS
    /\ validation.error = StageErrors[4]

(***************************************************************************)
(* C3 as claimed: when mixin is 0, getRingParticipants performs no network *)
(* call and returns one empty decoy list per input.                        *)
(***************************************************************************)
C3_Original ==
    (mixin = 0 /\ ring.kind = "value") =>
        /\ ~Logged("getRandomOutputsByAmount")
        /\ Len(ring.randomOuts) = Len(amounts)
        /\ \A i \in 1..Len(ring.randomOuts) : ring.randomOuts[i] = <<>>

(***************************************************************************)
(* C3 as amended: when mixin is 0, getRingParticipants performs no network *)
(* call and returns the empty sequence, whatever the number of inputs.     *)
(***************************************************************************)
C3_Amended ==
    (mixin = 0 /\ ValidationRan /\ validation.error = SUCCESS) =>
        /\ ring = Returned(<<>>)
        /\ ~Logged("getRandomOutputsByAmount")
        /\ fetch = "none"

\* A mixin-0 call with two inputs whose ring set has been returned.
C3_Witness ==
    /\ mixin = 0
    /\ ring.kind = "value"
    /\ Len(amounts) = 2
    /\ txArgs.called

(***************************************************************************)
(* C4 as claimed: when every requested amount is present in a non-empty    *)
(* response but some requested amount's bucket holds fewer than mixin      *)
(* entries, getRingParticipants fails with NOT_ENOUGH_FAKE_OUTPUTS naming  *)
(* the first input amount, in input order, whose bucket is insufficient,   *)
(* with needed = mixin and found = the number of entries of that bucket.   *)
(***************************************************************************)
C4_Claim ==
    (Resolved /\ outs # <<>> /\ AllPresent /\ \E i \in 1..Len(amounts) : Insufficient(i)) =>
        LET first == CHOOSE i \in 1..Len(amounts) :
                         /\ Insufficient(i)
                         /\ \A j \in 1..(i - 1) : ~Insufficient(j)
        IN  ring = Failed(WalletError("NOT_ENOUGH_FAKE_OUTPUTS",
                       [text |-> "Failed to get enough matching outputs",
                        amount |-> amounts[first],
                        needed |-> mixin,
                        found |-> Len(BucketOf(amounts[first]))]))

(***************************************************************************)
(* C5 as claimed: for mixin >= 1 the per-amount sufficiency check rejects  *)
(* a response only when the bucket of some requested amount holds fewer    *)
(* than mixin entries: a response in which every requested amount has a    *)
(* bucket of at least mixin entries draws no insufficiency message from    *)
(* that check.                                                             *)
(***************************************************************************)
C5_Claim ==
    (Resolved /\ outs # <<>> /\ AllPresent /\ \A i \in 1..Len(amounts) : ~Insufficient(i)) =>
        /\ checkAmounts(amounts, mixin, outs, 1) = SUCCESS
        /\ ring.error.message.text = "Failed to get enough matching outputs" =>
               \E k \in 1..Len(outs) : Len(outs[k][2]) < mixin

(***************************************************************************)
(* C6 as claimed: the completeness check compares the number of buckets    *)
(* with the number of distinct amounts requested: one sufficient bucket    *)
(* per distinct amount passes the check, and the generic failure is        *)
(* returned only when the bucket count differs from the distinct-amount    *)
(* count.                                                                  *)
(***************************************************************************)
C6_Original ==
    Resolved =>
        /\ OneSufficientBucketPerDistinctAmount => ~GenericFailure
        /\ GenericFailure => Len(outs) # Cardinality(DistinctAmounts)

(***************************************************************************)
(* C6 as amended: the completeness check compares the number of buckets    *)
(* with the number of inputs, duplicates of an amount counted: resolution  *)
(* succeeds only with as many buckets as inputs, the generic failure is    *)
(* returned only when the two counts differ, and when inputs share an      *)
(* amount a response of one sufficient bucket per distinct amount is       *)
(* rejected, generically unless the per-amount loop already returned an    *)
(* error (which it does for every mixin above 2).                          *)
(***************************************************************************)
C6_Amended ==
    Resolved =>
        /\ ring.kind = "value" => Len(outs) = Len(amounts)
        /\ GenericFailure => Len(outs) # Len(amounts)
        /\ (OneSufficientBucketPerDistinctAmount
                /\ Cardinality(DistinctAmounts) < Len(amounts)) =>
               /\ ring.kind = "error"
               /\ ring.error.code = "NOT_ENOUGH_FAKE_OUTPUTS"
               /\ mixin <= 2 => GenericFailure

\* Two inputs of one amount, one sufficient bucket for it: generic failure.
C6_Witness ==
    /\ Resolved
    /\ Len(amounts) = 2
    /\ Cardinality(DistinctAmounts) = 1
    /\ OneSufficientBucketPerDistinctAmount
    /\ GenericFailure
    /\ result = ReturnError(WalletError("NOT_ENOUGH_FAKE_OUTPUTS", NoMessage))

(***************************************************************************)
(* C7 as claimed: whenever getRingParticipants succeeds with mixin >= 1    *)
(* the result has one decoy list per input and the i-th list is built from *)
(* a response bucket whose amount is the amount of the i-th input,         *)
(* whatever the order of the buckets in the response.                      *)
(***************************************************************************)
C7_Claim ==
    (Resolved /\ ring.kind = "value") =>
        /\ Len(ring.randomOuts) = Len(amounts)
        /\ \A i \in 1..Len(amounts) :
              \E k \in 1..Len(outs) :
                  /\ outs[k][1] = amounts[i]
                  /\ ring.randomOuts[i] = mapOutputs(outs[k][2])

(***************************************************************************)
(* C8 as claimed: every decoy list returned by getRingParticipants, and    *)
(* so every decoy list passed to createTransaction, has length exactly     *)
(* mixin, also when a bucket of the response holds more than mixin         *)
(* entries.                                                                *)
(***************************************************************************)
C8_Original ==
    /\ ring.kind = "value" =>
          \A i \in 1..Len(ring.randomOuts) : Len(ring.randomOuts[i]) = mixin
    /\ txArgs.called =>
          \A i \in 1..Len(txArgs.randomOuts) : Len(txArgs.randomOuts[i]) = txArgs.mixin

(***************************************************************************)
(* C8 as amended: every decoy list returned by getRingParticipants for     *)
(* mixin >= 1 is a whole bucket of the response, of at least mixin         *)
(* entries (a longer bucket is not cut down to mixin); for mixin 0 the     *)
(* result holds no list; createTransaction receives exactly these lists.   *)
(***************************************************************************)
C8_Amended ==
    /\ (ring.kind = "value" /\ mixin >= 1) =>
          /\ Len(ring.randomOuts) = Len(outs)
          /\ \A i \in 1..Len(ring.randomOuts) :
                /\ Len(ring.randomOuts[i]) >= mixin
                /\ Len(ring.randomOuts[i]) = Len(outs[i][2])
    /\ (ring.kind = "value" /\ mixin = 0) => ring.randomOuts = <<>>
    /\ txArgs.called =>
          /\ ring.kind = "value"
          /\ txArgs.randomOuts = ring.randomOuts
          /\ txArgs.mixin = mixin

\* A bucket of more than mixin entries is handed to createTransaction whole.
C8_Witness ==
    /\ txArgs.called
    /\ txArgs.mixin >= 1
    /\ \E i \in 1..Len(txArgs.randomOuts) : Len(txArgs.randomOuts[i]) > txArgs.mixin

(***************************************************************************)
(* C9 as claimed: getRingParticipants reports the error of the earliest    *)
(* failing pass over the whole response: (a) empty response gives          *)
(* DAEMON_OFFLINE, (b) else a requested amount missing gives the           *)
(* missing-amount error naming a missing amount, (c) else a requested      *)
(* amount's bucket below mixin gives the insufficiency error with counts,  *)
(* (d) else a bucket-count mismatch gives the generic failure.             *)
(***************************************************************************)
C9_Claim ==
    Resolved =>
        IF outs = <<>>
        THEN ring = Failed(WalletError("DAEMON_OFFLINE", NoMessage))
        ELSE IF ~AllPresent
        THEN /\ ring.kind = "error"
             /\ ring.error.code = "NOT_ENOUGH_FAKE_OUTPUTS"
             /\ ring.error.message.text = "Failed to get any matching outputs"
             /\ ring.error.message.amount \in
                    {amounts[i] : i \in {j \in 1..Len(amounts) :
                        \A k \in 1..Len(outs) : outs[k][1] # amounts[j]}}
        ELSE IF \E i \in 1..Len(amounts) : Insufficient(i)
        THEN /\ ring.kind = "error"
             /\ ring.error.code = "NOT_ENOUGH_FAKE_OUTPUTS"
             /\ ring.error.message.text = "Failed to get enough matching outputs"
        ELSE (Len(outs) # Len(amounts)) => GenericFailure

(***************************************************************************)
(* C10: once the transaction is built the outcome is decided by the relay  *)
(* alone: resolving true returns the hash of the built transaction,        *)
(* resolving false returns DAEMON_ERROR, throwing or timing out returns    *)
(* DAEMON_OFFLINE.                                                         *)
(***************************************************************************)
C10_RelayOutcome ==
    /\ pc = "awaitRelay" => (txArgs.called /\ ~tx.threw /\ relay = "none")
    /\ relay # "none" =>
          /\ pc = "done"
          /\ txArgs.called /\ ~tx.threw
          /\ relay = "true" => result = ReturnHash(tx.hash)
          /\ relay = "false" => result = ReturnError(WalletError("DAEMON_ERROR", NoMessage))
          /\ relay = "throw" => result = ReturnError(WalletError("DAEMON_OFFLINE", NoMessage))
    /\ (pc = "done" /\ txArgs.called /\ ~tx.threw) => relay # "none"

\* The relay timed out after a successful build.
C10_Witness ==
    /\ pc = "done"
    /\ tx.hash = "hash2"
    /\ relay = "throw"
    /\ result.kind = "error"

(***************************************************************************)
(* C11 as claimed: in every run that returns a WalletError the transaction *)
(* was not submitted: daemon.sendTransaction was not invoked.              *)
(***************************************************************************)
C11_Original ==
    result.kind = "error" => ~Logged("sendTransaction")

(***************************************************************************)
(* C11 as amended: a hash is returned only in runs in which                *)
(* daemon.sendTransaction was invoked and resolved true; a run that        *)
(* returns a WalletError has not invoked daemon.sendTransaction unless the *)
(* error is the relay's own, DAEMON_ERROR after the relay resolved false   *)
(* or DAEMON_OFFLINE after it threw or timed out.                          *)
(***************************************************************************)
C11_Amended ==
    /\ result.kind = "hash" => (Logged("sendTransaction") /\ relay = "true")
    /\ (result.kind = "error" /\ Logged("sendTransaction")) =>
          \/ relay = "false" /\ result.error.code = "DAEMON_ERROR"
          \/ relay = "throw" /\ result.error.code = "DAEMON_OFFLINE"
    /\ (result.kind = "error" /\ result.error.code \notin {"DAEMON_ERROR", "DAEMON_OFFLINE"}) =>
          ~Logged("sendTransaction")
    /\ result.kind = "rejected" => ~Logged("sendTransaction")

\* The relay refused a transaction that was handed to it: an error after submission.
C11_Witness ==
    /\ pc = "done"
    /\ Logged("sendTransaction")
    /\ relay = "false"
    /\ result = ReturnError(WalletError("DAEMON_ERROR", NoMessage))

(***************************************************************************)
(* C12: when CryptoUtils.createTransaction throws, sendTransactionAdvanced *)
(* returns UNKNOWN_ERROR carrying the message of the exception; nothing    *)
(* propagates to the caller and daemon.sendTransaction is not called.      *)
(***************************************************************************)
C12_BuildFailure ==
    tx.threw =>
        /\ pc = "done"
        /\ result.kind = "error"
        /\ result.error.code = "UNKNOWN_ERROR"
        /\ result.error.message.text = tx.err
        /\ tx.err # ""
        /\ ~Logged("sendTransaction")
        /\ relay = "none"

\* createTransaction threw after a decoy fetch that succeeded.
C12_Witness ==
    /\ tx.threw
    /\ txArgs.called
    /\ Resolved
    /\ result.error.code = "UNKNOWN_ERROR"

(***************************************************************************)
(* C13 as claimed: every call ends by returning a hash or one WalletError, *)
(* never by a rejected promise; a failure or timeout of the decoy fetch,   *)
(* like one of the relay, is returned as DAEMON_OFFLINE.                   *)
(***************************************************************************)
C13_Claim ==
    pc = "done" =>
        /\ result.kind \in {"hash", "error"}
        /\ fetch = "threw" => result = ReturnError(WalletError("DAEMON_OFFLINE", NoMessage))
        /\ relay = "throw" => result = ReturnError(WalletError("DAEMON_OFFLINE", NoMessage))

(***************************************************************************)
(* C20: whenever getRingParticipants returns a decoy set for mixin >= 1,   *)
(* the response was non-empty, held a bucket for every input amount, had   *)
(* exactly as many buckets as there are inputs (duplicates counted), and   *)
(* every bucket of it, matched by an input or not, held at least mixin     *)
(* entries; the result has one list per response bucket, in response       *)
(* order, with each bucket's entries in source order.                      *)
(***************************************************************************)
C20_SuccessImplies ==
    (Resolved /\ ring.kind = "value") =>
        /\ outs # <<>>
        /\ AllPresent
        /\ Len(outs) = Len(amounts)
        /\ \A k \in 1..Len(outs) : Len(outs[k][2]) >= mixin
        /\ Len(ring.randomOuts) = Len(outs)
        /\ \A k \in 1..Len(outs) :
              /\ Len(ring.randomOuts[k]) = Len(outs[k][2])
              /\ \A j \in 1..Len(outs[k][2]) :
                    /\ ring.randomOuts[k][j].globalIndex = outs[k][2][j][1]
                    /\ ring.randomOuts[k][j].key = outs[k][2][j][2]

\* A decoy set was returned from a response with a bucket that no input matches.
C20_Witness ==
    /\ Resolved
    /\ ring.kind = "value"
    /\ Len(outs) = 2
    /\ \E k \in 1..Len(outs) : outs[k][1] \notin DistinctAmounts
    /\ \E k \in 1..Len(outs) : Len(outs[k][2]) >= 2

(***************************************************************************)
(* C14 as claimed: when the selected inputs cover less than the requested  *)
(* total (foundMoney < totalAmount), sendTransactionAdvanced returns a     *)
(* balance error and performs no decoy fetch, no build and no relay.       *)
(***************************************************************************)
C14_Claim ==
    (ValidationRan /\ validation.error = SUCCESS /\ foundMoney < totalAmount) =>
        /\ pc = "done"
        /\ result.kind = "error"
        /\ result.error.code = "InsufficientFunds"
        /\ ~Logged("getRandomOutputsByAmount")
        /\ ~Logged("createTransaction")
        /\ ~Logged("sendTransaction")

\* The sum of the amounts of a destination array, taken from its end.
RECURSIVE AmountSum(_)
AmountSum(destinations) ==
    IF Len(destinations) = 0 THEN 0
    ELSE AmountSum(SubSeq(destinations, 1, Len(destinations) - 1))
             + destinations[Len(destinations)][2]

RECURSIVE TransferSum(_)
TransferSum(transfers) ==
    IF Len(transfers) = 0 THEN 0
    ELSE TransferSum(SubSeq(transfers, 1, Len(transfers) - 1))
             + transfers[Len(transfers)].amount

(***************************************************************************)
(* C15: the node-fee destination is appended to the destination array      *)
(* that validateTransaction sees exactly when the advertised node fee      *)
(* amount is nonzero, and for a request that passes validation the total   *)
(* handed to input selection, and the sum of the destinations handed to    *)
(* the build step plus fee, equal sum(requested amounts) + fee + node fee  *)
(* amount.                                                                 *)
(***************************************************************************)
C15_Total ==
    ValidationRan =>
        /\ nodeFee[2] # 0 => addressesAndAmounts = Append(requested, nodeFee)
        /\ nodeFee[2] = 0 => addressesAndAmounts = requested
        /\ validation.error = SUCCESS =>
               totalAmount = AmountSum(requested) + fee + nodeFee[2]
        /\ txArgs.called =>
               /\ Len(txArgs.transfers) = Len(requested) + (IF nodeFee[2] # 0 THEN 1 ELSE 0)
               /\ TransferSum(txArgs.transfers) + txArgs.fee =
                      AmountSum(requested) + fee + nodeFee[2]
               /\ txArgs.fee = fee

\* Two destinations, an explicit fee and a node fee reach the build step.
C15_Witness ==
    /\ txArgs.called
    /\ Len(requested) = 2
    /\ nodeFee[2] # 0
    /\ fee = 20
    /\ totalAmount = 24

(***************************************************************************)
(* C16 as claimed: nothing carries over between calls: in every call with  *)
(* a nonzero node fee, also one that passes the destinations array of an   *)
(* earlier call again, the array validated and assembled is the caller's   *)
(* original destinations plus exactly one node-fee entry.                  *)
(***************************************************************************)
C16_Claim ==
    (ValidationRan /\ nodeFee[2] # 0) =>
        addressesAndAmounts = Append(original, nodeFee)

(***************************************************************************)
(* C17 as claimed: within one call there is at most one decoy fetch and    *)
(* one relay submission, nothing is retried, the two network operations    *)
(* are never in flight together, and the events occur in the order         *)
(* validation, input selection, key-image derivation, decoy fetch, build,  *)
(* relay, each stage starting only after the previous one succeeded.       *)
(***************************************************************************)
StageOrder == <<"validateTransaction", "getTransactionInputsForAmount",
                "generateKeyImage", "getRandomOutputsByAmount",
                "createTransaction", "sendTransaction">>

Position(event) == CHOOSE n \in 1..Len(StageOrder) : StageOrder[n] = event

C17_Claim ==
    /\ \A i \in 1..Len(log) : \A j \in 1..Len(log) :
          i < j => Position(log[i]) < Position(log[j])
    /\ Logged("getTransactionInputsForAmount") => validation.error = SUCCESS
    /\ Logged("generateKeyImage") =>
          (Logged("getTransactionInputsForAmount") /\ foundMoney >= totalAmount)
    /\ Logged("getRandomOutputsByAmount") => Logged("generateKeyImage")
    /\ Logged("createTransaction") =>
          /\ Logged("generateKeyImage")
          /\ ring.kind = "value"
          /\ Logged("getRandomOutputsByAmount") => fetch = "resolved"
    /\ Logged("sendTransaction") => (Logged("createTransaction") /\ ~tx.threw)
    /\ pc = "awaitDecoys" => ~Logged("sendTransaction")
    /\ pc = "awaitRelay" => fetch # "threw"
    /\ (result.kind \in {"error", "rejected"}) => pc = "done"

C19_EffectivePaymentID ==
    txArgs.called =>
        LET embedded == {decodeAddress(addressesAndAmounts[i][1]).paymentId :
                             i \in 1..Len(addressesAndAmounts)} \ {""}
        IN  /\ embedded # {} => embedded = {txArgs.paymentID}
            /\ embedded = {} => txArgs.paymentID = paymentID

\* An integrated address first, plain addresses after it: its payment ID is used.
C19_Witness ==
    /\ txArgs.called
    /\ Len(addressesAndAmounts) >= 2
    /\ addressesAndAmounts[1][1] = "integrated1"
    /\ paymentID = ""
    /\ txArgs.paymentID = "p1"

====
